---------------------------- MODULE Spec2Model ----------------------------
(***************************************************************************)
(* Model of src/text/template/option.go: the option strings accepted by    *)
(* Template.Option and the two policy fields they set.                      *)
(*                                                                          *)
(* A Go string is modelled as a sequence of one-character strings, so that  *)
(* splitting, concatenation and comparison are computed character by        *)
(* character, as strings.Cut, + and == do.                                  *)
(***************************************************************************)
EXTENDS Integers, Sequences, FiniteSets, TLC

(***************************************************************************)
(* Bounds                                                                   *)
(***************************************************************************)
\* Largest number of option strings passed to one Option call.
MaxOpts == 2

(***************************************************************************)
(* The enumerations (iota constants)                                        *)
(***************************************************************************)
mapInvalid == 0
mapZeroValue == 1
mapError == 2

panicRecover == 0
panicNop == 1

\* The values of type missingKeyAction / onPanicAction that have a name.
missingKeyAction == {mapInvalid, mapZeroValue, mapError}
onPanicAction == {panicRecover, panicNop}

\* The zero value of struct option: what a newly allocated store holds.
zeroOption == [missingKey |-> 0, onPanic |-> 0]

(***************************************************************************)
(* String literals of the source                                            *)
(***************************************************************************)
eq == <<"=">>
missingkey == <<"m", "i", "s", "s", "i", "n", "g", "k", "e", "y">>
onpanic == <<"o", "n", "p", "a", "n", "i", "c">>
invalid == <<"i", "n", "v", "a", "l", "i", "d">>
default == <<"d", "e", "f", "a", "u", "l", "t">>
zero == <<"z", "e", "r", "o">>
error == <<"e", "r", "r", "o", "r">>
recover == <<"r", "e", "c", "o", "v", "e", "r">>
nop == <<"n", "o", "p">>
emptyOptionString ==
    <<"e", "m", "p", "t", "y", " ", "o", "p", "t", "i", "o", "n", " ",
      "s", "t", "r", "i", "n", "g">>
unrecognizedOption ==
    <<"u", "n", "r", "e", "c", "o", "g", "n", "i", "z", "e", "d", " ",
      "o", "p", "t", "i", "o", "n", ":", " ">>

(***************************************************************************)
(* strings.Cut(s, sep): s is cut around the first instance of sep.          *)
(***************************************************************************)
\* HasAt(s, sep, k): sep occurs in s starting at position k.
HasAt(s, sep, k) ==
    /\ k + Len(sep) - 1 <= Len(s)
    /\ \A j \in 1..Len(sep) : s[k + j - 1] = sep[j]

\* Index(s, sep): position of the first instance of sep in s, 0 if none.
Index(s, sep) ==
    IF \E k \in 1..Len(s) : HasAt(s, sep, k)
    THEN CHOOSE k \in 1..Len(s) :
            /\ HasAt(s, sep, k)
            /\ \A j \in 1..(k - 1) : ~HasAt(s, sep, j)
    ELSE 0

Cut(s, sep) ==
    LET k == Index(s, sep) IN
    IF k = 0
    THEN [before |-> s, after |-> <<>>, found |-> FALSE]
    ELSE [before |-> SubSeq(s, 1, k - 1),
          after |-> SubSeq(s, k + Len(sep), Len(s)),
          found |-> TRUE]

(***************************************************************************)
(* Template.setOption                                                       *)
(***************************************************************************)
\* Outcome of one setOption call on the store o: the store afterwards and
\* the panic value, if the call panicked.
Returns(o) == [option |-> o, panicking |-> FALSE, value |-> <<>>]
Panics(o, v) == [option |-> o, panicking |-> TRUE, value |-> v]

\* The switch on key and value: the store after the matching case's
\* assignment and return, or no match when control leaves the switch.
Match(o) == [matched |-> TRUE, option |-> o]
NoMatch(o) == [matched |-> FALSE, option |-> o]

\* A store written as the composite literal option{missingKey: v} would
\* be: every other field zero.
missingkeyValue_wholeStruct(o, value) ==
    IF value \in {invalid, default}
    THEN Match([zeroOption EXCEPT !.missingKey = mapInvalid])
    ELSE IF value = zero
    THEN Match([zeroOption EXCEPT !.missingKey = mapZeroValue])
    ELSE IF value = error
    THEN Match([zeroOption EXCEPT !.missingKey = mapError])
    ELSE NoMatch(o)

\* The switch with its first case taken for a default clause.
missingkeyValue_fallback(o, value) ==
    IF value = zero
    THEN Match([o EXCEPT !.missingKey = mapZeroValue])
    ELSE IF value = error
    THEN Match([o EXCEPT !.missingKey = mapError])
    ELSE Match([o EXCEPT !.missingKey = mapInvalid])

\* The switch without the "default" spelling.
missingkeyValue_noAlias(o, value) ==
    IF value = invalid
    THEN Match([o EXCEPT !.missingKey = mapInvalid])
    ELSE IF value = zero
    THEN Match([o EXCEPT !.missingKey = mapZeroValue])
    ELSE IF value = error
    THEN Match([o EXCEPT !.missingKey = mapError])
    ELSE NoMatch(o)

\* switch value { ... } under case "missingkey".
missingkeyValue(o, value) ==
    IF value \in {invalid, default}
    THEN Match([o EXCEPT !.missingKey = mapInvalid])
    ELSE IF value = zero
    THEN Match([o EXCEPT !.missingKey = mapZeroValue])
    ELSE IF value = error
    THEN Match([o EXCEPT !.missingKey = mapError])
    ELSE NoMatch(o)

\* "nop" flipping the field instead of setting it.
onpanicValue_toggle(o, value) ==
    IF value = recover
    THEN Match([o EXCEPT !.onPanic = panicRecover])
    ELSE IF value = nop
    THEN Match([o EXCEPT !.onPanic = 1 - o.onPanic])
    ELSE NoMatch(o)

\* "nop" storing a constant of the other enumeration.
onpanicValue_outOfRange(o, value) ==
    IF value = recover
    THEN Match([o EXCEPT !.onPanic = panicRecover])
    ELSE IF value = nop
    THEN Match([o EXCEPT !.onPanic = mapError])
    ELSE NoMatch(o)

\* switch value { ... } under case "onpanic".
onpanicValue(o, value) ==
    IF value = recover
    THEN Match([o EXCEPT !.onPanic = panicRecover])
    ELSE IF value = nop
    THEN Match([o EXCEPT !.onPanic = panicNop])
    ELSE NoMatch(o)

\* switch key { ... }.
keyValue(o, key, value) ==
    IF key = missingkey
    THEN missingkeyValue(o, value)
    ELSE IF key = onpanic
    THEN onpanicValue(o, value)
    ELSE NoMatch(o)

\* setOption without its check for the empty string.
setOption_noEmptyCheck(o, s) ==
    LET c == Cut(s, eq)
        m == keyValue(o, c.before, c.after)
    IN IF c.found /\ m.matched
       THEN Returns(m.option)
       ELSE Panics(m.option, unrecognizedOption \o s)

\* setOption splitting at every "=" and reading the first two fields.
setOption_splitFields(o, s) ==
    IF s = <<>>
    THEN Panics(o, emptyOptionString)
    ELSE LET c == Cut(s, eq)
             m == keyValue(o, c.before, Cut(c.after, eq).before)
         IN IF c.found /\ m.matched
            THEN Returns(m.option)
            ELSE Panics(m.option, unrecognizedOption \o s)

setOption(o, s) ==
    IF s = <<>>
    THEN Panics(o, emptyOptionString)
    ELSE LET c == Cut(s, eq)
             m == keyValue(o, c.before, c.after)
         IN IF c.found /\ m.matched
            THEN Returns(m.option)
            ELSE Panics(m.option, unrecognizedOption \o s)

(***************************************************************************)
(* Template.Option                                                          *)
(***************************************************************************)
\* t.init(): allocate the store, zero valued, unless the template has one.
init(c, o) == IF c THEN o ELSE zeroOption

\* The loop going on to the strings after the one that panicked.
RECURSIVE range_keepGoing(_, _, _, _)
range_keepGoing(o, ss, k, last) ==
    IF k > Len(ss)
    THEN [option |-> o, panicking |-> FALSE, value |-> <<>>,
          n |-> k - 1, last |-> last]
    ELSE LET r == setOption(o, ss[k]) IN
         IF r.panicking
         THEN [option |-> range_keepGoing(r.option, ss, k + 1, o).option,
               panicking |-> TRUE, value |-> r.value, n |-> k, last |-> o]
         ELSE range_keepGoing(r.option, ss, k + 1, o)

\* The loop undoing the string before the one that panicked.
RECURSIVE range_undo(_, _, _, _)
range_undo(o, ss, k, last) ==
    IF k > Len(ss)
    THEN [option |-> o, panicking |-> FALSE, value |-> <<>>,
          n |-> k - 1, last |-> last]
    ELSE LET r == setOption(o, ss[k]) IN
         IF r.panicking
         THEN [option |-> last, panicking |-> TRUE, value |-> r.value,
               n |-> k, last |-> o]
         ELSE range_undo(r.option, ss, k + 1, o)

\* The loop going through the strings from the last to the first.
RECURSIVE range_reverse(_, _, _, _)
range_reverse(o, ss, k, last) ==
    IF k > Len(ss)
    THEN [option |-> o, panicking |-> FALSE, value |-> <<>>,
          n |-> k - 1, last |-> last]
    ELSE LET r == setOption(o, ss[Len(ss) + 1 - k]) IN
         IF r.panicking
         THEN [option |-> r.option, panicking |-> TRUE, value |-> r.value,
               n |-> k, last |-> o]
         ELSE range_reverse(r.option, ss, k + 1, o)

\* The loop "for _, s := range opt { t.setOption(s) }" from index k on.
\* n is the number of setOption calls made, last the store as it was when
\* the last of them was entered.
RECURSIVE range(_, _, _, _)
range(o, ss, k, last) ==
    IF k > Len(ss)
    THEN [option |-> o, panicking |-> FALSE, value |-> <<>>,
          n |-> k - 1, last |-> last]
    ELSE LET r == setOption(o, ss[k]) IN
         IF r.panicking
         THEN [option |-> r.option, panicking |-> TRUE, value |-> r.value,
               n |-> k, last |-> o]
         ELSE range(r.option, ss, k + 1, o)

(***************************************************************************)
(* Inputs                                                                   *)
(***************************************************************************)
S(key, value) == key \o eq \o value

bogus == <<"b", "o", "g", "u", "s">>

\* Option strings a caller passes: the six of the documentation, and
\* strings of each invalid shape.
Inputs ==
    { S(missingkey, invalid), S(missingkey, default), S(missingkey, zero),
      S(missingkey, error), S(onpanic, recover), S(onpanic, nop),
      <<>>,                                \* ""
      missingkey,                          \* "missingkey"
      bogus,                               \* "bogus"
      S(bogus, zero),                      \* "bogus=zero"
      S(missingkey, bogus),                \* "missingkey=bogus"
      S(onpanic, zero),                    \* "onpanic=zero"
      S(missingkey, <<>>),                 \* "missingkey="
      S(<<>>, zero),                       \* "=zero"
      S(missingkey, S(zero, <<"x">>)),     \* "missingkey=zero=x"
      S(missingkey, S(<<>>, zero)),        \* "missingkey==zero"
      S(onpanic, S(nop, <<>>)) }           \* "onpanic=nop="

SeqsUpTo(X, n) == UNION {[1..k -> X] : k \in 0..n}

(***************************************************************************)
(* State                                                                    *)
(***************************************************************************)
VARIABLES
    common,     \* the template has its store allocated (t.common # nil)
    option,     \* t.option
    pc,         \* "idle", or how the running Option call ended
    fresh,      \* t.init() allocated the store in that call
    opt,        \* the arguments of that call
    pre,        \* t.option when that call was entered
    n,          \* number of setOption calls that call made
    last,       \* t.option when the last setOption call was entered
    panicValue  \* the value the call panicked with

vars == <<common, option, pc, fresh, opt, pre, n, last, panicValue>>

Init ==
    /\ common = FALSE
    /\ option = zeroOption
    /\ pc = "idle"
    /\ fresh = FALSE
    /\ opt = <<>>
    /\ pre = zeroOption
    /\ n = 0
    /\ last = zeroOption
    /\ panicValue = <<>>

\* t.Option(ss...): the whole call, up to its return or its panic.
Option(ss) ==
    /\ pc = "idle"
    /\ LET o == init(common, option)
           r == range(o, ss, 1, o)
       IN /\ common' = TRUE
          /\ option' = r.option
          /\ pc' = IF r.panicking THEN "panicked" ELSE "returned"
          /\ fresh' = ~common
          /\ opt' = ss
          /\ pre' = o
          /\ n' = r.n
          /\ last' = r.last
          /\ panicValue' = r.value

\* The call returned t; the caller goes on.
Return ==
    /\ pc = "returned"
    /\ pc' = "idle"
    /\ fresh' = FALSE
    /\ opt' = <<>>
    /\ pre' = option
    /\ n' = 0
    /\ last' = option
    /\ panicValue' = <<>>
    /\ UNCHANGED <<common, option>>

\* The call panicked; the caller recovers and goes on with the template.
Recover ==
    /\ pc = "panicked"
    /\ pc' = "idle"
    /\ fresh' = FALSE
    /\ opt' = <<>>
    /\ pre' = option
    /\ n' = 0
    /\ last' = option
    /\ panicValue' = <<>>
    /\ UNCHANGED <<common, option>>

Next ==
    \/ \E ss \in SeqsUpTo(Inputs, MaxOpts) : Option(ss)
    \/ Return
    \/ Recover

Spec == Init /\ [][Next]_vars

(***************************************************************************)
(* The documented options, as the table of the specification states them    *)
(***************************************************************************)
NamesMissingKey(s) ==
    s \in {S(missingkey, invalid), S(missingkey, default),
           S(missingkey, zero), S(missingkey, error)}

NamesOnPanic(s) == s \in {S(onpanic, recover), S(onpanic, nop)}

Known(s) == NamesMissingKey(s) \/ NamesOnPanic(s)

\* The value the table maps a documented option string to.
Mapped(s) ==
    CASE s = S(missingkey, invalid) -> mapInvalid
      [] s = S(missingkey, default) -> mapInvalid
      [] s = S(missingkey, zero) -> mapZeroValue
      [] s = S(missingkey, error) -> mapError
      [] s = S(onpanic, recover) -> panicRecover
      [] s = S(onpanic, nop) -> panicNop

\* The store the table gives for one documented string, and for a sequence
\* of them taken left to right.
Expected(o, s) ==
    IF NamesMissingKey(s)
    THEN [o EXCEPT !.missingKey = Mapped(s)]
    ELSE [o EXCEPT !.onPanic = Mapped(s)]

RECURSIVE ExpectedAll(_, _)
ExpectedAll(o, ss) ==
    IF ss = <<>> THEN o ELSE ExpectedAll(Expected(o, Head(ss)), Tail(ss))

\* Number of "=" in s.
CountEq(s) == Cardinality({k \in 1..Len(s) : s[k] = "="})

Stores == [missingKey : missingKeyAction, onPanic : onPanicAction]

Called == pc \in {"returned", "panicked"}

(***************************************************************************)
(* C1: a call with one documented option string returns without panicking   *)
(* and leaves the named field at the mapped value, whatever the store held; *)
(* "missingkey=invalid" and "missingkey=default" give the same store.       *)
(***************************************************************************)
C1_KnownOptionSetsMappedValue ==
    (Called /\ Len(opt) = 1 /\ Known(opt[1])) =>
        /\ pc = "returned"
        /\ opt[1] = S(missingkey, invalid) => option.missingKey = mapInvalid
        /\ opt[1] = S(missingkey, default) => option.missingKey = mapInvalid
        /\ opt[1] = S(missingkey, zero) => option.missingKey = mapZeroValue
        /\ opt[1] = S(missingkey, error) => option.missingKey = mapError
        /\ opt[1] = S(onpanic, recover) => option.onPanic = panicRecover
        /\ opt[1] = S(onpanic, nop) => option.onPanic = panicNop
        /\ opt[1] \in {S(missingkey, invalid), S(missingkey, default)} =>
               option = [pre EXCEPT !.missingKey = mapInvalid]

C1_Witness ==
    /\ pc = "returned"
    /\ opt = <<S(missingkey, default)>>
    /\ pre.missingKey = mapError
    /\ option.missingKey = mapInvalid

(***************************************************************************)
(* C2: when the string handed to setOption is not one of the six documented *)
(* strings, the call panics and both fields are as they were when that      *)
(* setOption call was entered.                                              *)
(***************************************************************************)
C2_UnknownOptionPanicsStoreUnchanged ==
    (Called /\ n >= 1 /\ ~Known(opt[n])) =>
        /\ pc = "panicked"
        /\ option.missingKey = last.missingKey
        /\ option.onPanic = last.onPanic

C2_Witness ==
    /\ pc = "panicked"
    /\ opt = <<S(missingkey, bogus)>>
    /\ pre.missingKey = mapError
    /\ pre.onPanic = panicNop
    /\ option = pre

(***************************************************************************)
(* C3: a call whose arguments hold an undocumented string stops at the      *)
(* first such string; the store is then the one obtained from the strings   *)
(* before it alone.                                                         *)
(***************************************************************************)
FirstUnknown ==
    CHOOSE k \in 1..Len(opt) :
        /\ ~Known(opt[k])
        /\ \A j \in 1..(k - 1) : Known(opt[j])

C3_StopsAtFirstInvalid ==
    (Called /\ \E k \in 1..Len(opt) : ~Known(opt[k])) =>
        /\ pc = "panicked"
        /\ n = FirstUnknown
        /\ option = ExpectedAll(pre, SubSeq(opt, 1, FirstUnknown - 1))

C3_Witness ==
    /\ pc = "panicked"
    /\ Len(opt) = 2
    /\ n = 1
    /\ Known(opt[2])
    /\ Expected(pre, opt[2]) # pre
    /\ option = pre

(***************************************************************************)
(* C4: after a panic, every field written by a string before the failing    *)
(* one still holds the value that string set, unless a later string before  *)
(* the failing one wrote the same field.                                    *)
(***************************************************************************)
C4_NoRollback ==
    pc = "panicked" =>
        \A k \in 1..(n - 1) :
            /\ (/\ NamesMissingKey(opt[k])
                /\ \A j \in (k + 1)..(n - 1) : ~NamesMissingKey(opt[j]))
                   => option.missingKey = Mapped(opt[k])
            /\ (/\ NamesOnPanic(opt[k])
                /\ \A j \in (k + 1)..(n - 1) : ~NamesOnPanic(opt[j]))
                   => option.onPanic = Mapped(opt[k])

C4_Witness ==
    /\ pc = "panicked"
    /\ opt = <<S(missingkey, error), bogus>>
    /\ pre.missingKey = mapInvalid
    /\ option.missingKey = mapError

(***************************************************************************)
(* C5: a call whose strings are all documented returns, having gone through *)
(* all of them, and each field holds the value of the last string that      *)
(* names its key, or its value at entry when no string does.                *)
(***************************************************************************)
LastIndex(P(_)) ==
    IF \E k \in 1..Len(opt) : P(opt[k])
    THEN CHOOSE k \in 1..Len(opt) :
            /\ P(opt[k])
            /\ \A j \in (k + 1)..Len(opt) : ~P(opt[j])
    ELSE 0

C5_LastWriteWins ==
    (Called /\ \A k \in 1..Len(opt) : Known(opt[k])) =>
        /\ pc = "returned"
        /\ n = Len(opt)
        /\ option.missingKey =
               IF LastIndex(NamesMissingKey) = 0
               THEN pre.missingKey
               ELSE Mapped(opt[LastIndex(NamesMissingKey)])
        /\ option.onPanic =
               IF LastIndex(NamesOnPanic) = 0
               THEN pre.onPanic
               ELSE Mapped(opt[LastIndex(NamesOnPanic)])

C5_Witness ==
    /\ pc = "returned"
    /\ opt = <<S(missingkey, zero), S(missingkey, error)>>
    /\ option.missingKey = mapError

(***************************************************************************)
(* C6: a store just allocated, before any option string is processed,      *)
(* holds mapInvalid and panicRecover, and in every state missingKey is one  *)
(* of the three named values and onPanic one of the two.                    *)
(***************************************************************************)
C6_FieldsAlwaysValid ==
    /\ ~common => (option.missingKey = mapInvalid /\ option.onPanic = panicRecover)
    /\ (Called /\ fresh) =>
           (pre.missingKey = mapInvalid /\ pre.onPanic = panicRecover)
    /\ (Called /\ fresh /\ n = 0) =>
           (option.missingKey = mapInvalid /\ option.onPanic = panicRecover)
    /\ option.missingKey \in {mapInvalid, mapZeroValue, mapError}
    /\ option.onPanic \in {panicRecover, panicNop}
    /\ Cardinality({mapInvalid, mapZeroValue, mapError}) = 3
    /\ Cardinality({panicRecover, panicNop}) = 2

C6_Witness ==
    /\ pc = "panicked"
    /\ pre = [missingKey |-> mapError, onPanic |-> panicRecover]
    /\ option = [missingKey |-> mapError, onPanic |-> panicNop]

(***************************************************************************)
(* C7, as stated: the value of every panic is the offending option string   *)
(* itself.                                                                  *)
(***************************************************************************)
C7_PanicValueIsOptionString ==
    pc = "panicked" => panicValue = opt[n]

(***************************************************************************)
(* C7, amended: the value of every panic is a message: "empty option        *)
(* string" when the offending string is empty, and otherwise                *)
(* "unrecognized option: " followed by the offending string, character for  *)
(* character.                                                               *)
(***************************************************************************)
C7_PanicMessage ==
    pc = "panicked" =>
        /\ n \in 1..Len(opt)
        /\ opt[n] = <<>> => panicValue = emptyOptionString
        /\ opt[n] # <<>> =>
               /\ Len(panicValue) = Len(unrecognizedOption) + Len(opt[n])
               /\ SubSeq(panicValue, 1, Len(unrecognizedOption)) = unrecognizedOption
               /\ SubSeq(panicValue, Len(unrecognizedOption) + 1, Len(panicValue))
                      = opt[n]

C7_Witness ==
    /\ pc = "panicked"
    /\ opt = <<S(onpanic, nop), <<>>>>
    /\ n = 2
    /\ panicValue = emptyOptionString

(***************************************************************************)
(* C8: a string that setOption accepts leaves the field of the other key as *)
(* it was when that setOption call was entered.                             *)
(***************************************************************************)
C8_OtherFieldUnchanged ==
    (pc = "returned" /\ n >= 1) =>
        /\ NamesMissingKey(opt[n]) => option.onPanic = last.onPanic
        /\ NamesOnPanic(opt[n]) => option.missingKey = last.missingKey
        /\ opt = <<S(onpanic, nop), S(missingkey, error)>> =>
               option = [missingKey |-> mapError, onPanic |-> panicNop]

C8_Witness ==
    /\ pc = "returned"
    /\ opt = <<S(onpanic, nop), S(missingkey, error)>>
    /\ pre = [missingKey |-> mapInvalid, onPanic |-> panicRecover]
    /\ last = [missingKey |-> mapInvalid, onPanic |-> panicNop]
    /\ option = [missingKey |-> mapError, onPanic |-> panicNop]

(***************************************************************************)
(* C9: a string with more than one "=" makes setOption panic and changes no *)
(* field; a string that setOption accepts has exactly one "=", its key      *)
(* before it and its value after it.                                        *)
(***************************************************************************)
C9_SplitAtFirstEquals ==
    /\ (Called /\ n >= 1 /\ CountEq(opt[n]) > 1) =>
           /\ pc = "panicked"
           /\ option = last
    /\ \A k \in 1..n :
           (pc = "returned" \/ k < n) =>
               /\ CountEq(opt[k]) = 1
               /\ \E key \in {missingkey, onpanic} :
                  \E value \in {invalid, default, zero, error, recover, nop} :
                      opt[k] = key \o <<"=">> \o value

C9_Witness ==
    /\ pc = "panicked"
    /\ opt = <<S(missingkey, error), S(missingkey, S(zero, <<"x">>))>>
    /\ n = 2
    /\ option.missingKey = mapError

(***************************************************************************)
(* C10: on documented strings, a string given twice leaves the store a      *)
(* call with it once leaves; a "missingkey" and an "onpanic" string leave   *)
(* the same store in either order; and a field that the call sets does not  *)
(* depend on the store at entry.                                            *)
(***************************************************************************)
C10_IdempotentAndCommutes ==
    pc = "returned" =>
        /\ (Len(opt) = 2 /\ opt[1] = opt[2]) =>
               option = range(pre, <<opt[1]>>, 1, pre).option
        /\ (Len(opt) = 2 /\ NamesMissingKey(opt[1]) # NamesMissingKey(opt[2])) =>
               option = range(pre, <<opt[2], opt[1]>>, 1, pre).option
        /\ \A o \in Stores :
               /\ (\E k \in 1..Len(opt) : NamesMissingKey(opt[k])) =>
                      range(o, opt, 1, o).option.missingKey = option.missingKey
               /\ (\E k \in 1..Len(opt) : NamesOnPanic(opt[k])) =>
                      range(o, opt, 1, o).option.onPanic = option.onPanic

C10_Witness ==
    /\ pc = "returned"
    /\ opt = <<S(onpanic, nop), S(onpanic, nop)>>
    /\ pre.onPanic = panicRecover
    /\ option.onPanic = panicNop

=============================================================================
